---- MODULE Spec2Model ----
(***************************************************************************)
(* Model of apiScript/ws_monitor.py: RealtimeClipboardMonitor, a WebSocket *)
(* client that connects, requests the current content, starts a listen    *)
(* task and prints every inbound message until interrupt or loss of the   *)
(* connection.                                                            *)
(*                                                                         *)
(* Strings are sequences of one-character strings, so that slicing        *)
(* ([:100]) and str.replace are computed as Python computes them.  The    *)
(* timestamp that prefixes each printed line is left out of the lines.    *)
(***************************************************************************)
EXTENDS Integers, Sequences, FiniteSets, TLC

\* ------------------------------------------------------------------ bounds
\* Longest `data` array of an all_content message the transport delivers.
MaxItems == 4
\* Most method calls a client of the class makes (SpecApi only).
MaxCalls == 3

\* ------------------------------------------------------- program constants
PreviewLen == 100
ItemPreviewLen == 80
CreatedLen == 19
MaxShown == 3
RequestLimit == 10

\* ------------------------------------------------------------ JSON values
\* A scalar JSON value, or the absence of the key ("absent").
JAbsent == [k |-> "absent", s |-> <<>>, n |-> 0]
JNull == [k |-> "null", s |-> <<>>, n |-> 0]
JStr(str) == [k |-> "str", s |-> str, n |-> 0]
JNum(num) == [k |-> "num", s |-> <<>>, n |-> num]

Min(a, b) == IF a < b THEN a ELSE b

S_sync == <<"s", "y", "n", "c">>
S_delete == <<"d", "e", "l", "e", "t", "e">>
S_all_content == <<"a", "l", "l", "_", "c", "o", "n", "t", "e", "n", "t">>
S_connection_stats ==
    <<"c", "o", "n", "n", "e", "c", "t", "i", "o", "n", "_", "s", "t", "a", "t", "s">>
S_get_all_content ==
    <<"g", "e", "t", "_", "a", "l", "l", "_", "c", "o", "n", "t", "e", "n", "t">>
S_unknown == <<"u", "n", "k", "n", "o", "w", "n">>
S_ping == <<"p", "i", "n", "g">>
S_text == <<"t", "e", "x", "t">>
S_boom == <<"b", "o", "o", "m">>
S_saved == <<"s", "a", "v", "e", "d">>
S_abc123 == <<"a", "b", "c", "1", "2", "3">>
S_created ==
    <<"2", "0", "2", "4", "-", "0", "1", "-", "0", "2", "T", "0", "3", ":", "0", "4",
      ":", "0", "5", ".", "6", "7", "8", "Z">>
S_short == <<"h", "i", "\n", "T", "x">>
\* PreviewLen + 1 characters, newlines on both sides of the cut of [:100]
\* and of [:80].
S_long ==
    [i \in 1..(PreviewLen + 1) |->
        IF i \in {ItemPreviewLen, ItemPreviewLen + 1, PreviewLen, PreviewLen + 1}
        THEN "\n" ELSE "A"]

\* Exactly PreviewLen characters, the last one a newline.
S_exact == [i \in 1..PreviewLen |-> IF i = PreviewLen THEN "\n" ELSE "B"]
\* "A" * 150, as in the example of the specification, with a newline inside
\* the cut and a mark right after it.
S_150 ==
    [i \in 1..(PreviewLen + 50) |->
        CASE i = 2 -> "\n"
          [] i = PreviewLen + 1 -> "Z"
          [] OTHER -> "A"]

\* dict.get(key, default) on a key that may be absent.
Get(v, default) == IF v.k = "absent" THEN default ELSE v

\* `key in dict`
Has(v) == v.k # "absent"

\* Python truthiness of dict.get(key): None, "" and 0 are falsy.
Truthy(v) ==
    CASE v.k = "str" -> Len(v.s) > 0
      [] v.k = "num" -> v.n # 0
      [] OTHER -> FALSE

\* s[:n]
Slice(s, n) == SubSeq(s, 1, Min(n, Len(s)))

\* s.replace(from, to) for one-character from and to
Replace(s, from, to) == [i \in 1..Len(s) |-> IF s[i] = from THEN to ELSE s[i]]

\* A JSON object used as payload or as item: every key the code reads.
Dict(error, message, type, content, createdAt, activeConnections) ==
    [error |-> error, message |-> message, type |-> type, content |-> content,
     createdAt |-> createdAt, activeConnections |-> activeConnections]

EmptyDict == Dict(JAbsent, JAbsent, JAbsent, JAbsent, JAbsent, JAbsent)

\* len(dict): the number of keys present
DictLen(d) == Cardinality({f \in DOMAIN d : Has(d[f])})

\* An inbound JSON object.  dk says what the `data` key holds: "absent",
\* "null", "dict" (dd) or "list" (dl).
Msg(type, id, count, dk, dd, dl) ==
    [type |-> type, id |-> id, count |-> count, dk |-> dk, dd |-> dd, dl |-> dl]

NoMsg == Msg(JAbsent, JAbsent, JAbsent, "absent", EmptyDict, <<>>)

\* ---------------------------------------------------------- printed lines
Line(kind, i, a, b, c) == [kind |-> kind, i |-> i, a |-> a, b |-> b, c |-> c]

L(kind) == Line(kind, 0, JAbsent, JAbsent, JAbsent)

\* The outcome of a call: the lines it printed and whether it raised.
Done(lines) == [lines |-> lines, raised |-> FALSE]
Raised(lines) == [lines |-> lines, raised |-> TRUE]

\* ------------------------------------------------------- handle_message
\* SyncPreview with the cut one character late.
SyncPreviewOffByOne(item) ==
    Replace(Slice(Get(item.content, JStr(<<>>)).s, PreviewLen + 1), "\n", " ")

\* content_preview = item.get('content', '')[:100].replace('\n', ' ')
SyncPreview(item) ==
    Replace(Slice(Get(item.content, JStr(<<>>)).s, PreviewLen), "\n", " ")

\* HandleSync with the message key tested before the error key.
HandleSyncMessageFirst(m) ==
    IF m.dk = "dict"
    THEN IF Has(m.dd.message)
         THEN Done(<<Line("sync_status", 0, m.dd.message, JAbsent, JAbsent)>>)
         ELSE IF Has(m.dd.error)
         THEN Done(<<Line("sync_error", 0, m.dd.error, JAbsent, JAbsent)>>)
         ELSE IF Truthy(m.dd.type)
         THEN IF Get(m.dd.content, JStr(<<>>)).k = "str"
              THEN Done(<<Line("sync_new", 0, m.dd.type, JStr(SyncPreview(m.dd)),
                               JAbsent)>>)
              ELSE Raised(<<>>)
         ELSE Done(<<>>)
    ELSE Done(<<>>)

\* the sync branch
HandleSync(m) ==
    IF m.dk = "dict"
    THEN IF Has(m.dd.error)
         THEN Done(<<Line("sync_error", 0, m.dd.error, JAbsent, JAbsent)>>)
         ELSE IF Has(m.dd.message)
         THEN Done(<<Line("sync_status", 0, m.dd.message, JAbsent, JAbsent)>>)
         ELSE IF Truthy(m.dd.type)
         THEN IF Get(m.dd.content, JStr(<<>>)).k = "str"
              THEN Done(<<Line("sync_new", 0, m.dd.type, JStr(SyncPreview(m.dd)),
                               JAbsent)>>)
              ELSE Raised(<<>>)
         ELSE Done(<<>>)
    ELSE Done(<<>>)

\* the delete branch
HandleDelete(m) ==
    Done(<<Line("deleted", 0, Get(m.id, JStr(S_unknown)), JAbsent, JAbsent)>>)

\* ItemRaises with item['createdAt'] and item['content'] in place of .get:
\* an absent key raises KeyError.
ItemRaisesNoDefault(item) ==
    \/ ~item.isDict
    \/ item.d.createdAt.k # "str"
    \/ item.d.content.k # "str"

\* Whether formatting one item of the list raises: .get on a non-dict,
\* slicing a non-string.
ItemRaises(item) ==
    \/ ~item.isDict
    \/ Get(item.d.createdAt, JStr(<<>>)).k # "str"
    \/ Get(item.d.content, JStr(<<>>)).k # "str"

\* The line printed for item number i (0-based) of the list.
ItemLine(i, item) ==
    Line("all_item", i + 1,
         Get(item.d.type, JNull),
         JStr(Replace(Slice(Get(item.d.content, JStr(<<>>)).s, ItemPreviewLen),
                      "\n", " ")),
         JStr(Replace(Slice(Get(item.d.createdAt, JStr(<<>>)).s, CreatedLen),
                      "T", " ")))

\* for i, item in enumerate(items[:3]), from index i on, after `lines`.
RECURSIVE ItemLoop(_, _, _)
ItemLoop(items, i, lines) ==
    IF i >= Len(items)
    THEN Done(lines)
    ELSE IF ItemRaises(items[i + 1])
         THEN Raised(lines)
         ELSE ItemLoop(items, i + 1, Append(lines, ItemLine(i, items[i + 1])))

\* HandleAllContent looping over items instead of items[:3].
HandleAllContentNoLimit(m) ==
    IF m.dk = "null"
    THEN Raised(<<>>)
    ELSE LET n == CASE m.dk = "list" -> Len(m.dl)
                    [] m.dk = "dict" -> DictLen(m.dd)
                    [] OTHER -> 0
             count == Get(m.count, JNum(n))
             head == <<Line("all_count", 0, count, JAbsent, JAbsent)>>
         IN  IF n = 0
             THEN Done(head)
             ELSE IF m.dk = "dict"
                  THEN Raised(Append(head, L("all_header")))
                  ELSE ItemLoop(m.dl, 0, Append(head, L("all_header")))

\* the all_content branch
HandleAllContent(m) ==
    IF m.dk = "null"
    THEN Raised(<<>>)
    ELSE LET n == CASE m.dk = "list" -> Len(m.dl)
                    [] m.dk = "dict" -> DictLen(m.dd)
                    [] OTHER -> 0
             count == Get(m.count, JNum(n))
             head == <<Line("all_count", 0, count, JAbsent, JAbsent)>>
         IN  IF n = 0
             THEN Done(head)
             ELSE IF m.dk = "dict"
                  THEN Raised(Append(head, L("all_header")))
                  ELSE ItemLoop(Slice(m.dl, MaxShown), 0, Append(head, L("all_header")))

\* the connection_stats branch
HandleStats(m) ==
    CASE m.dk = "absent" ->
            Done(<<Line("stats", 0, JNum(0), JAbsent, JAbsent)>>)
      [] m.dk = "dict" ->
            Done(<<Line("stats", 0, Get(m.dd.activeConnections, JNum(0)), JAbsent,
                        JAbsent)>>)
      [] OTHER -> Raised(<<>>)

\* message_type = data.get('type', 'unknown')
MessageType(m) == Get(m.type, JStr(S_unknown))

HandleOther(m) == Done(<<Line("unrecognized", 0, MessageType(m), JAbsent, JAbsent)>>)

\* HandleMessage with `if` in place of the first `elif`: a sync message
\* falls through to the chain that follows and reaches its else branch.
HandleMessageFallsThrough(m) ==
    LET t == MessageType(m)
    IN  CASE t = JStr(S_sync) ->
                IF HandleSync(m).raised
                THEN HandleSync(m)
                ELSE Done(HandleSync(m).lines \o HandleOther(m).lines)
          [] t = JStr(S_delete) -> HandleDelete(m)
          [] t = JStr(S_all_content) -> HandleAllContent(m)
          [] t = JStr(S_connection_stats) -> HandleStats(m)
          [] OTHER -> HandleOther(m)

\* if / elif / else on message_type
HandleMessage(m) ==
    LET t == MessageType(m)
    IN  CASE t = JStr(S_sync) -> HandleSync(m)
          [] t = JStr(S_delete) -> HandleDelete(m)
          [] t = JStr(S_all_content) -> HandleAllContent(m)
          [] t = JStr(S_connection_stats) -> HandleStats(m)
          [] OTHER -> HandleOther(m)

\* ------------------------------------------------------- inbound frames
Payloads ==
    {Dict(e, msg, t, c, JAbsent, JAbsent) :
        e \in {JAbsent, JStr(S_boom)}, msg \in {JAbsent, JStr(S_saved)},
        t \in {JAbsent, JStr(<<>>), JStr(S_text)},
        c \in {JAbsent, JNull, JStr(S_short), JStr(S_long)}}

StatsPayload == Dict(JAbsent, JAbsent, JAbsent, JAbsent, JAbsent, JNum(5))

ItemFull ==
    [isDict |-> TRUE,
     d |-> Dict(JAbsent, JAbsent, JStr(S_text), JStr(S_long), JStr(S_created), JAbsent)]
ItemEmpty == [isDict |-> TRUE, d |-> EmptyDict]
ItemNullContent ==
    [isDict |-> TRUE,
     d |-> Dict(JAbsent, JAbsent, JStr(S_text), JNull, JStr(S_created), JAbsent)]

\* an array element that is no object (a number, say)
ItemNotDict == [isDict |-> FALSE, d |-> EmptyDict]

Items == {ItemFull, ItemEmpty}

\* Arrays of up to MaxItems items, and some arrays holding an item that the
\* formatting fails on.
ItemLists ==
    UNION {[1..n -> Items] : n \in 0..MaxItems}
    \cup {<<ItemNullContent>>, <<ItemNotDict, ItemFull>>,
          <<ItemFull, ItemNullContent, ItemEmpty>>,
          <<ItemFull, ItemEmpty, ItemFull, ItemNullContent>>}

Counts == {JAbsent, JNum(0), JNum(7)}

SyncMessages ==
    {Msg(JStr(S_sync), JAbsent, JAbsent, "dict", p, <<>>) : p \in Payloads}
    \cup {Msg(JStr(S_sync), JAbsent, JAbsent, dk, EmptyDict, <<>>) :
            dk \in {"absent", "null", "list"}}
    \cup {Msg(JStr(S_sync), JAbsent, JAbsent, "dict",
               Dict(JAbsent, JAbsent, JStr(S_text), JStr(c), JAbsent, JAbsent), <<>>) :
            c \in {<<>>, S_exact, S_150}}

DeleteMessages ==
    {Msg(JStr(S_delete), id, JAbsent, "absent", EmptyDict, <<>>) :
        id \in {JAbsent, JStr(S_abc123)}}

\* Every array with the count 7, every count with the arrays of at most one
\* item, and `data` absent, null or an object.
AllContentMessages ==
    {Msg(JStr(S_all_content), JAbsent, JNum(7), "list", EmptyDict, l) : l \in ItemLists}
    \cup {Msg(JStr(S_all_content), JAbsent, c, "list", EmptyDict, l) :
            c \in Counts, l \in {<<>>, <<ItemFull>>, <<ItemEmpty>>}}
    \cup {Msg(JStr(S_all_content), JAbsent, c, dk, EmptyDict, <<>>) :
            c \in Counts, dk \in {"absent", "null", "dict"}}
    \cup {Msg(JStr(S_all_content), JAbsent, c, "dict", StatsPayload, <<>>) : c \in Counts}

StatsMessages ==
    {Msg(JStr(S_connection_stats), JAbsent, JAbsent, dk, EmptyDict, <<>>) :
        dk \in {"absent", "null", "dict", "list"}}
    \cup {Msg(JStr(S_connection_stats), JAbsent, JAbsent, "dict", StatsPayload, <<>>)}

OtherMessages ==
    {Msg(t, JAbsent, JAbsent, dk, EmptyDict, <<>>) :
        t \in {JAbsent, JStr(S_ping), JNum(5), JNull}, dk \in {"absent", "dict"}}

Messages ==
    SyncMessages \cup DeleteMessages \cup AllContentMessages \cup StatsMessages
    \cup OtherMessages

\* What the transport hands to the loop: a text frame that is no JSON
\* ("text_bad"), a binary frame that is no UTF-8 ("binary_bad"), a JSON text
\* that is no object ("json_scalar"), or a JSON object.
ObjectFrame(m) == [fk |-> "json_object", m |-> m]
NoFrame == [fk |-> "none", m |-> NoMsg]

Frames ==
    {ObjectFrame(m) : m \in Messages}
    \cup {[fk |-> k, m |-> NoMsg] : k \in {"text_bad", "binary_bad", "json_scalar"}}

\* ------------------------------------------------------ outbound messages
\* RequestMessage without its limit.
RequestMessageNoLimit == [type |-> S_get_all_content, data |-> JAbsent]

RequestMessage == [type |-> S_get_all_content, data |-> JNum(RequestLimit)]
PingMessage == [type |-> S_ping, data |-> JAbsent]
ClientMessages == {RequestMessage, PingMessage}

\* ------------------------------------------------------------------ state
VARIABLES
    mode,        \* "script": python ws_monitor.py; "client": the class used by a caller
    pc,          \* where the main flow is
    listenPc,    \* where the listen task is
    websocket,   \* self.websocket: "None" or "conn"
    running,     \* self.running
    chan,        \* the transport channel: "none", "open" or "closed"
    closeCalls,  \* how many times websocket.close() was called
    sent,        \* the messages written to the channel
    out,         \* the lines the last step printed
    ev,          \* the last step: operation, frame received, outcome
    interrupted, \* a KeyboardInterrupt is unwinding the main flow
    exited,      \* the process has ended
    exitCode,    \* with this code
    calls        \* method calls made by the client

vars ==
    <<mode, pc, listenPc, websocket, running, chan, closeCalls, sent, out, ev,
      interrupted, exited, exitCode, calls>>

Event(op, frame, outcome) == [op |-> op, frame |-> frame, outcome |-> outcome]

\* InitObject with the running flag raised by the constructor.
InitObjectRunning ==
    /\ websocket = "None"
    /\ running = TRUE

\* __init__
InitObject ==
    /\ websocket = "None"
    /\ running = FALSE

Init ==
    /\ mode = "script"
    /\ pc = "start"
    /\ InitObject
    /\ listenPc = "none"
    /\ chan = "none"
    /\ closeCalls = 0
    /\ sent = <<>>
    /\ out = <<>>
    /\ ev = Event("init", NoFrame, "none")
    /\ interrupted = FALSE
    /\ exited = FALSE
    /\ exitCode = 0
    /\ calls = 0

InitApi ==
    /\ mode = "client"
    /\ pc = "client"
    /\ InitObject
    /\ listenPc = "none"
    /\ chan = "none"
    /\ closeCalls = 0
    /\ sent = <<>>
    /\ out = <<>>
    /\ ev = Event("init", NoFrame, "none")
    /\ interrupted = FALSE
    /\ exited = FALSE
    /\ exitCode = 0
    /\ calls = 0

\* ------------------------------------------------------------ process end
\* MainOutcome without main's `except Exception`: the error reaches the
\* top level.
MainOutcomePropagates(how) ==
    CASE how = "return" -> "none"
      [] how = "error" -> "Exception"
      [] how = "cancelled" -> "KeyboardInterrupt"

\* What reaches the top level from main() when start_monitoring ended by
\* returning ("return"), by raising an Exception ("error") or by the
\* cancellation that a KeyboardInterrupt delivers ("cancelled").
MainOutcome(how) ==
    CASE how = "return" -> "none"
      [] how = "error" -> "none"
      [] how = "cancelled" -> "KeyboardInterrupt"

\* The lines main() prints for it.
MainLines(how) == IF how = "error" THEN <<L("program_error")>> ELSE <<>>

\* The exit code the top level gives to what reaches it.
TopLevelExitCode(exc) == IF exc = "Exception" THEN 1 ELSE 0

\* The lines the top level prints for it.
TopLevelLines(exc) ==
    CASE exc = "KeyboardInterrupt" -> <<L("program_exited")>>
      [] exc = "Exception" -> <<L("program_error")>>
      [] OTHER -> <<>>

\* The process ends after printing `lines`, with `exc` at the top level.
Exit(lines, exc) ==
    /\ pc' = "exit"
    /\ exited' = TRUE
    /\ exitCode' = TopLevelExitCode(exc)
    /\ out' = lines \o TopLevelLines(exc)

\* start_monitoring is left: in the script main() handles it and the process
\* ends; a client gets the control back.
Leave(lines, how) ==
    IF mode = "script"
    THEN Exit(lines \o MainLines(how), MainOutcome(how))
    ELSE /\ pc' = "client"
         /\ out' = lines
         /\ UNCHANGED <<exited, exitCode>>

\* ---------------------------------------------------------------- connect
\* ConnectReturn returning True from the except branch too.
ConnectReturnAlwaysTrue(outcome) == TRUE

\* The value connect returns.
ConnectReturn(outcome) == outcome = "ok"

\* The handshake ends: the rest of connect, and in the script main's test
\* of its result.
ConnectDone(outcome) ==
    /\ pc = "connecting"
    /\ ev' = Event("connect", NoFrame, outcome)
    /\ IF outcome = "ok"
       THEN /\ websocket' = "conn"
            /\ running' = TRUE
            /\ chan' = "open"
       ELSE UNCHANGED <<websocket, running, chan>>
    /\ LET lines == IF outcome = "ok"
                    THEN <<L("connect_ok"), L("listening"), L("rule")>>
                    ELSE <<L("connect_failed")>>
       IN  IF mode = "script"
           THEN IF ConnectReturn(outcome)
                THEN /\ pc' = "connected"
                     /\ out' = lines
                     /\ UNCHANGED <<exited, exitCode>>
                ELSE Exit(lines, "none")
           ELSE /\ pc' = "client"
                /\ out' = lines
                /\ UNCHANGED <<exited, exitCode>>
    /\ UNCHANGED <<mode, listenPc, closeCalls, sent, interrupted, calls>>

\* ----------------------------------------------------------- send_message
\* Whether the message is written: there is a handle, and the write on it
\* succeeds (`ok`: the peer still takes it).
SendWrites(ok) == websocket # "None" /\ chan = "open" /\ ok

\* SendLines with a failed write swallowed: nothing is printed for it.
SendLinesSilentOnFailure(msg, ok) ==
    IF SendWrites(ok)
    THEN <<Line("sent", 0, JStr(msg.type), msg.data, JAbsent)>>
    ELSE <<>>

\* The lines send_message prints.
SendLines(msg, ok) ==
    IF websocket = "None"
    THEN <<>>
    ELSE IF SendWrites(ok)
         THEN <<Line("sent", 0, JStr(msg.type), msg.data, JAbsent)>>
         ELSE <<L("send_failed")>>

\* ------------------------------------------------------------- disconnect
\* DisconnectCloses testing that the connection is still open.
DisconnectClosesIfOpen == websocket # "None" /\ chan = "open"

\* `if self.websocket:`
DisconnectCloses == websocket # "None"

\* ------------------------------------------------------- start_monitoring
\* Finally without listen_task.cancel(): the listen task is left as it is
\* while the connection is closed.
FinallyNoCancel(lp, lines, intr) ==
    /\ listenPc' = lp
    /\ interrupted' = intr
    /\ IF DisconnectCloses
       THEN /\ running' = FALSE
            /\ closeCalls' = closeCalls + 1
            /\ pc' = "closing"
            /\ out' = lines
            /\ UNCHANGED <<exited, exitCode>>
       ELSE /\ UNCHANGED <<running, closeCalls>>
            /\ Leave(lines, IF intr THEN "cancelled" ELSE "return")

\* Finally as a retry loop: the listen task is cancelled and the flow goes
\* back to a new handshake in place of the disconnect.
FinallyReconnects(lp, lines, intr) ==
    /\ listenPc' = IF lp \in {"ready", "recv"} THEN "cancelling" ELSE lp
    /\ interrupted' = intr
    /\ pc' = "connecting"
    /\ out' = lines
    /\ UNCHANGED <<running, closeCalls, exited, exitCode>>

\* finally: listen_task.cancel(), then disconnect up to its await of
\* close().  lp is the listen task's position, intr whether a
\* KeyboardInterrupt brought the flow here.
Finally(lp, lines, intr) ==
    /\ listenPc' = IF lp \in {"ready", "recv"} THEN "cancelling" ELSE lp
    /\ interrupted' = intr
    /\ IF DisconnectCloses
       THEN /\ running' = FALSE
            /\ closeCalls' = closeCalls + 1
            /\ pc' = "closing"
            /\ out' = lines
            /\ UNCHANGED <<exited, exitCode>>
       ELSE /\ UNCHANGED <<running, closeCalls>>
            /\ Leave(lines, IF intr THEN "cancelled" ELSE "return")

\* start_monitoring up to its first sleep: the request, the listen task,
\* the first test of the running flag.
StartMonitoringBody(ok) ==
    /\ sent' = IF SendWrites(ok) THEN Append(sent, RequestMessage) ELSE sent
    /\ LET lines == <<L("monitor_banner")>> \o SendLines(RequestMessage, ok)
                        \o <<L("commands")>>
       IN  IF running
           THEN /\ listenPc' = "ready"
                /\ pc' = "idle"
                /\ out' = lines
                /\ UNCHANGED <<running, closeCalls, interrupted, exited, exitCode>>
           ELSE Finally("ready", lines, FALSE)
    /\ UNCHANGED <<mode, websocket, chan>>

\* main: await monitor.start_monitoring()
StartMonitoring(ok) ==
    /\ mode = "script"
    /\ pc = "connected"
    /\ ev' = Event("start_monitoring", NoFrame, IF ok THEN "ok" ELSE "fail")
    /\ StartMonitoringBody(ok)
    /\ UNCHANGED calls

\* One pass of `while self.running: await asyncio.sleep(0.1)`.  While the
\* flag holds a pass changes nothing: the loop goes round for ever, which
\* shows as a state that repeats.
IdleTick ==
    /\ pc = "idle"
    /\ ev' = Event("idle", NoFrame, IF running THEN "sleep" ELSE "leave")
    /\ IF running
       THEN /\ out' = <<>>
            /\ UNCHANGED <<pc, listenPc, running, closeCalls, interrupted, exited,
                           exitCode>>
       ELSE Finally(listenPc, <<>>, FALSE)
    /\ UNCHANGED <<mode, websocket, chan, sent, calls>>

\* close() ends: the rest of disconnect, and the return to the caller.
CloseDone(outcome) ==
    /\ pc \in {"closing", "api_closing"}
    /\ ev' = Event("close_done", NoFrame, outcome)
    /\ chan' = "closed"
    /\ LET lines == IF outcome = "ok" THEN <<L("disconnected")>> ELSE <<>>
       IN  IF pc = "api_closing"
           THEN /\ pc' = "client"
                /\ out' = lines
                /\ UNCHANGED <<exited, exitCode>>
           ELSE Leave(lines, CASE outcome = "error" -> "error"
                               [] interrupted -> "cancelled"
                               [] OTHER -> "return")
    /\ UNCHANGED <<mode, listenPc, websocket, running, closeCalls, sent, interrupted,
                   calls>>

\* ------------------------------------------------------------------- main
\* The script starts: the banner, the arguments, the monitor object, and
\* connect up to its await of the handshake.
MainStart(startup) ==
    /\ mode = "script"
    /\ pc = "start"
    /\ ev' = Event("start", NoFrame, startup)
    /\ CASE startup = "ok" ->
              /\ pc' = "connecting"
              /\ out' = <<L("banner"), L("connecting")>>
              /\ UNCHANGED <<exited, exitCode>>
         [] startup = "bad_args" ->
              /\ pc' = "exit"
              /\ exited' = TRUE
              /\ exitCode' = 2
              /\ out' = <<L("banner"), L("usage")>>
         [] startup = "error" ->
              Exit(<<L("banner")>>, "Exception")
    /\ UNCHANGED <<mode, listenPc, websocket, running, chan, closeCalls, sent,
                   interrupted, calls>>

\* Ctrl-C while the main flow is suspended: the main task is cancelled at
\* its await, and KeyboardInterrupt is raised at the top level once it ends.
Interrupt ==
    /\ mode = "script"
    /\ pc \in {"connecting", "idle", "closing"}
    /\ ev' = Event("interrupt", NoFrame, pc)
    /\ IF pc = "idle"
       THEN Finally(listenPc, <<>>, TRUE)
       ELSE /\ Exit(<<>>, "KeyboardInterrupt")
            /\ interrupted' = TRUE
            /\ UNCHANGED <<listenPc, running, closeCalls>>
    /\ UNCHANGED <<mode, websocket, chan, sent, calls>>

\* -------------------------------------------------------- listen_messages
\* The exception json.loads raises on the frame ("none": it parses).
ParseError(f) ==
    CASE f.fk = "text_bad" -> "JSONDecodeError"
      [] f.fk = "binary_bad" -> "UnicodeDecodeError"
      [] OTHER -> "none"

\* `except json.JSONDecodeError` around one frame
CaughtPerFrame(exc) == exc = "JSONDecodeError"

\* FrameResult with a memory of the last frame: a frame equal to the one
\* handled just before is taken as a repeat and prints nothing.
FrameResultSkipsRepeat(f) ==
    IF ev.op = "frame" /\ ev.frame = f /\ f.fk = "json_object"
    THEN Done(<<>>)
    ELSE LET exc == ParseError(f)
         IN  IF exc # "none"
             THEN IF CaughtPerFrame(exc)
                  THEN Done(<<L("parse_failed")>>)
                  ELSE Raised(<<>>)
             ELSE IF f.fk = "json_object" THEN HandleMessage(f.m) ELSE Raised(<<>>)

\* The body of the loop for one frame: what it prints and whether an
\* exception leaves the loop.
FrameResult(f) ==
    LET exc == ParseError(f)
    IN  IF exc # "none"
        THEN IF CaughtPerFrame(exc)
             THEN Done(<<L("parse_failed")>>)
             ELSE Raised(<<>>)
        ELSE IF f.fk = "json_object" THEN HandleMessage(f.m) ELSE Raised(<<>>)

\* The task starts: `if not self.websocket: return`, else the first wait.
ListenStart ==
    /\ listenPc = "ready"
    /\ pc = "idle"
    /\ ev' = Event("listen_start", NoFrame, "none")
    /\ listenPc' = IF websocket = "None" THEN "done" ELSE "recv"
    /\ out' = <<>>
    /\ UNCHANGED <<mode, pc, websocket, running, chan, closeCalls, sent, interrupted,
                   exited, exitCode, calls>>

\* A frame arrives.  An exception that leaves the loop is caught by
\* `except Exception`: logged, running cleared, the task ends.
ListenFrame(f) ==
    /\ listenPc = "recv"
    /\ pc = "idle"
    /\ chan = "open"
    /\ ev' = Event("frame", f, IF FrameResult(f).raised THEN "raised" ELSE "ok")
    /\ LET r == FrameResult(f)
       IN  IF r.raised
           THEN /\ out' = Append(r.lines, L("listen_error"))
                /\ running' = FALSE
                /\ listenPc' = "done"
           ELSE /\ out' = r.lines
                /\ UNCHANGED <<running, listenPc>>
    /\ UNCHANGED <<mode, pc, websocket, chan, closeCalls, sent, interrupted, exited,
                   exitCode, calls>>

\* Whether the iteration over the socket raises ConnectionClosed for this
\* closure: `async for` ends normally on a clean closure ("ok": close code
\* 1000 or 1001, or none) and raises on any other ("error").
IterationRaises(closure) == closure = "error"

\* The transport reports that the connection is closed.
ListenClosed(closure) ==
    /\ listenPc = "recv"
    /\ pc = "idle"
    /\ chan = "open"
    /\ ev' = Event("closed", NoFrame, closure)
    /\ chan' = "closed"
    /\ listenPc' = "done"
    /\ IF IterationRaises(closure)
       THEN /\ out' = <<L("connection_closed")>>
            /\ running' = FALSE
       ELSE /\ out' = <<>>
            /\ UNCHANGED running
    /\ UNCHANGED <<mode, pc, websocket, closeCalls, sent, interrupted, exited,
                   exitCode, calls>>

\* ListenError with a retry: the error is logged and the task waits for
\* the next frame.
ListenErrorRetries ==
    /\ listenPc = "recv"
    /\ pc = "idle"
    /\ chan = "open"
    /\ ev' = Event("transport_error", NoFrame, "none")
    /\ out' = <<L("listen_error")>>
    /\ UNCHANGED <<mode, pc, listenPc, websocket, running, chan, closeCalls, sent,
                   interrupted, exited, exitCode, calls>>

\* The wait for a frame raises another exception.
ListenError ==
    /\ listenPc = "recv"
    /\ pc = "idle"
    /\ chan = "open"
    /\ ev' = Event("transport_error", NoFrame, "none")
    /\ out' = <<L("listen_error")>>
    /\ running' = FALSE
    /\ listenPc' = "done"
    /\ UNCHANGED <<mode, pc, websocket, chan, closeCalls, sent, interrupted, exited,
                   exitCode, calls>>

\* The cancelled task is resumed: CancelledError ends it.
ListenCancelled ==
    /\ listenPc = "cancelling"
    /\ ev' = Event("listen_cancelled", NoFrame, "none")
    /\ listenPc' = "cancelled"
    /\ out' = <<>>
    /\ UNCHANGED <<mode, pc, websocket, running, chan, closeCalls, sent, interrupted,
                   exited, exitCode, calls>>

\* ------------------------------------------------- a client of the class
ApiCall ==
    /\ mode = "client"
    /\ pc = "client"
    /\ calls < MaxCalls
    /\ calls' = calls + 1

\* connect(), up to its await of the handshake
ApiConnect ==
    /\ ApiCall
    /\ ev' = Event("call_connect", NoFrame, "none")
    /\ pc' = "connecting"
    /\ out' = <<L("connecting")>>
    /\ UNCHANGED <<mode, listenPc, websocket, running, chan, closeCalls, sent,
                   interrupted, exited, exitCode>>

\* disconnect(), up to its await of close()
ApiDisconnect ==
    /\ ApiCall
    /\ ev' = Event("call_disconnect", NoFrame, "none")
    /\ out' = <<>>
    /\ IF DisconnectCloses
       THEN /\ running' = FALSE
            /\ closeCalls' = closeCalls + 1
            /\ pc' = "api_closing"
       ELSE UNCHANGED <<running, closeCalls, pc>>
    /\ UNCHANGED <<mode, listenPc, websocket, chan, sent, interrupted, exited,
                   exitCode>>

\* send_message(msg)
ApiSendMessage(msg, ok) ==
    /\ ApiCall
    /\ ev' = Event("call_send", NoFrame, IF ok THEN "ok" ELSE "fail")
    /\ sent' = IF SendWrites(ok) THEN Append(sent, msg) ELSE sent
    /\ out' = SendLines(msg, ok)
    /\ UNCHANGED <<mode, pc, listenPc, websocket, running, chan, closeCalls,
                   interrupted, exited, exitCode>>

\* start_monitoring()
ApiStartMonitoring(ok) ==
    /\ ApiCall
    /\ listenPc \in {"none", "done", "cancelled"}
    /\ ev' = Event("start_monitoring", NoFrame, IF ok THEN "ok" ELSE "fail")
    /\ StartMonitoringBody(ok)

\* --------------------------------------------------------- specifications
Shared ==
    \/ \E outcome \in {"ok", "fail"} : ConnectDone(outcome)
    \/ IdleTick
    \/ \E outcome \in {"ok", "error"} : CloseDone(outcome)
    \/ ListenStart
    \/ \E f \in Frames : ListenFrame(f)
    \/ \E closure \in {"ok", "error"} : ListenClosed(closure)
    \/ ListenError
    \/ ListenCancelled

\* python ws_monitor.py
Next ==
    \/ \E startup \in {"ok", "bad_args", "error"} : MainStart(startup)
    \/ \E ok \in BOOLEAN : StartMonitoring(ok)
    \/ Interrupt
    \/ Shared

Spec == Init /\ [][Next]_vars

\* The event loop runs every task that is ready: the main flow's steps and
\* the listen task's start and cancellation are taken when they can be.
\* What the peer and the user do (the handshake ending, frames, closures,
\* the interrupt, close() ending) is not forced.
FairSpec ==
    /\ Spec
    /\ WF_vars(\E ok \in BOOLEAN : StartMonitoring(ok))
    /\ WF_vars(IdleTick)
    /\ WF_vars(ListenStart)
    /\ WF_vars(ListenCancelled)

\* The class driven by a caller: up to MaxCalls calls, in any order.
NextApi ==
    \/ ApiConnect
    \/ ApiDisconnect
    \/ \E msg \in ClientMessages, ok \in BOOLEAN : ApiSendMessage(msg, ok)
    \/ \E ok \in BOOLEAN : ApiStartMonitoring(ok)
    \/ Shared

SpecApi == InitApi /\ [][NextApi]_vars

\* ------------------------------------------------------------------ claims
Range(seq) == {seq[i] : i \in DOMAIN seq}

\* The last step was the loop's handling of a frame holding a JSON object
\* whose type is t.
FrameOfType(t) ==
    /\ ev.op = "frame"
    /\ ev.frame.fk = "json_object"
    /\ ev.frame.m.type = JStr(t)

\* C1: whenever the transport signals that the connection is closed while
\* listen_messages runs, for a clean closure as for an abnormal one, the
\* running flag is false and the listen loop has ended, and the process has
\* not ended on an error.
C1_ClosureClearsRunning ==
    ev.op = "closed" =>
        /\ running = FALSE
        /\ listenPc = "done"
        /\ ~exited

\* C2: once the listen loop has ended while the main flow idles, the main
\* flow eventually leaves the idle loop and calls disconnect, which closes
\* the channel.
C2_ListenEndLeadsToDisconnect ==
    (pc = "idle" /\ listenPc = "done") ~> (closeCalls > 0)

\* C3: a frame that is not valid JSON does not end the session: the parse
\* failure is logged, the running flag and the handle are as before and the
\* loop still waits for frames.
C3_MalformedFrameKeepsLoop ==
    (ev.op = "frame" /\ ev.frame.fk \in {"text_bad", "binary_bad"}) =>
        /\ out = <<L("parse_failed")>>
        /\ running = TRUE
        /\ websocket = "conn"
        /\ listenPc = "recv"

\* C4: when the handshake fails, connect reports the error and returns
\* failure with the running flag false and no handle, and the run ends
\* there: nothing was sent, no listen task exists and no step follows, so no
\* inbound message is handled.  In any state without a handle nothing was
\* sent and there is no listen task.
C4_ConnectFailureAborts ==
    /\ (ev.op = "connect" /\ ev.outcome = "fail") =>
          /\ out = <<L("connect_failed")>>
          /\ running = FALSE
          /\ websocket = "None"
          /\ chan = "none"
          /\ exited
          /\ exitCode = 0
          /\ ~ENABLED Next
    /\ websocket = "None" =>
          /\ running = FALSE
          /\ sent = <<>>
          /\ listenPc = "none"

C4_Witness == ev.op = "connect" /\ ev.outcome = "fail" /\ exited

\* C5, as amended: disconnect called without a handle (never connected)
\* changes no state and calls no close; called with a handle, also after an
\* earlier disconnect, it clears the running flag, keeps the handle and
\* calls close on the channel, once more each time, and when close ends the
\* channel is closed and the line is logged.  Calling it twice leaves the
\* state of calling it once, with close called and the line logged twice.
C5_DisconnectEffect ==
    [][/\ ev'.op = "call_disconnect" =>
            IF websocket = "None"
            THEN /\ UNCHANGED <<websocket, running, chan, closeCalls, sent, pc>>
                 /\ out' = <<>>
            ELSE /\ running' = FALSE
                 /\ closeCalls' = closeCalls + 1
                 /\ pc' = "api_closing"
                 /\ UNCHANGED <<websocket, chan, sent>>
       /\ (ev'.op = "close_done" /\ pc = "api_closing") =>
            /\ chan' = "closed"
            /\ pc' = "client"
            /\ UNCHANGED <<websocket, running, closeCalls, sent>>
            /\ ev'.outcome = "ok" => out' = <<L("disconnected")>>]_vars

\* disconnect is called on a connection that an earlier call has closed.
C5_Witness ==
    /\ ev.op = "call_disconnect"
    /\ chan = "closed"
    /\ closeCalls = 2
    /\ pc = "api_closing"

\* C5: disconnect called while already disconnected (never connected, or
\* after an earlier disconnect) changes no state and performs no close on
\* the channel.
C5_DisconnectedIsNoOp ==
    [][(ev'.op = "call_disconnect" /\ chan # "open") =>
            /\ UNCHANGED <<websocket, running, chan, closeCalls, pc>>
            /\ out' = <<>>]_vars

\* C6, as amended: send_message never propagates an error.  Without a
\* handle it returns silently: nothing is written and nothing is logged.
\* With a handle, a write that fails is logged and a write that succeeds is
\* logged as sent.  The running flag, the handle and the flow are left as
\* they were, and start_monitoring goes on to create the listen task
\* whatever the request did.
C6_SendNeverPropagates ==
    [][/\ ev'.op = "call_send" =>
            /\ UNCHANGED <<websocket, running, chan, pc, listenPc, exited, exitCode>>
            /\ Len(sent') \in {Len(sent), Len(sent) + 1}
            /\ out' = CASE websocket = "None" -> <<>>
                        [] websocket # "None" /\ sent' = sent -> <<L("send_failed")>>
                        [] OTHER ->
                             <<Line("sent", 0, JStr(sent'[Len(sent')].type),
                                    sent'[Len(sent')].data, JAbsent)>>
            /\ websocket = "None" => sent' = sent
       /\ ev'.op = "start_monitoring" =>
            /\ UNCHANGED <<websocket, running, chan>>
            /\ listenPc' \in {"ready", "cancelling"}
            /\ out'[1] = L("monitor_banner")
            /\ out'[Len(out')] \in {L("commands"), L("disconnected")}
            /\ (websocket # "None" /\ sent' = sent) <=> L("send_failed") \in Range(out')
            /\ sent' # sent =>
                  /\ sent' = Append(sent, RequestMessage)
                  /\ websocket # "None"]_vars

\* The request fails on a broken channel and the listen task is started.
C6_Witness ==
    /\ ev.op = "start_monitoring"
    /\ ev.outcome = "fail"
    /\ websocket = "conn"
    /\ L("send_failed") \in Range(out)
    /\ listenPc = "ready"
    /\ pc = "idle"

\* C6: in every failing case of send_message (channel absent, or channel
\* broken so that the write fails) the failure is logged.
C6_EveryFailureLogged ==
    [][(ev'.op \in {"call_send", "start_monitoring"} /\ sent' = sent) =>
            L("send_failed") \in Range(out')]_vars

\* C7, as amended: the process exits with code 0 on a user interrupt, and
\* with code 0 too when an error escapes start_monitoring, which main()
\* catches and logs; it exits with code 1 only when an error escapes main()
\* itself, during startup (and with argparse's code 2 on a rejected command
\* line).
C7_ExitCodes ==
    exited =>
        /\ (ev.op = "interrupt") =>
              /\ exitCode = 0
              /\ out = <<L("program_exited")>>
        /\ (ev.op = "close_done" /\ interrupted /\ ev.outcome = "ok") =>
              /\ exitCode = 0
              /\ out = <<L("disconnected"), L("program_exited")>>
        /\ (ev.op = "close_done" /\ ev.outcome = "error") =>
              /\ exitCode = 0
              /\ out = <<L("program_error")>>
        /\ (ev.op = "start" /\ ev.outcome = "error") =>
              /\ exitCode = 1
              /\ out = <<L("banner"), L("program_error")>>
        /\ exitCode = 1 => (ev.op = "start" /\ ev.outcome = "error")
        /\ exitCode = 2 <=> (ev.op = "start" /\ ev.outcome = "bad_args")
        /\ exitCode \in {0, 1, 2}

\* An error raised by close() during the monitoring run ended the process.
C7_Witness ==
    /\ exited
    /\ ev.op = "close_done"
    /\ ev.outcome = "error"
    /\ exitCode = 0
    /\ L("program_error") \in Range(out)

\* C7: exit code 0 on a clean user interrupt, exit code 1 whenever an error
\* raised during startup or during the monitoring run is not handled by the
\* operation that raised it.
C7_ErrorExitsOne ==
    (exited /\ ev.outcome # "bad_args") =>
        exitCode = IF ev.outcome = "error" /\ ~interrupted THEN 1 ELSE 0

\* A payload or item whose content and createdAt, where present, are strings.
StringFields(d) ==
    /\ d.content.k \in {"absent", "str"}
    /\ d.createdAt.k \in {"absent", "str"}

\* C8, as amended: for an inbound sync message whose payload is an object
\* (with a string content, if any), handle_message classifies by strict
\* priority: one error line if the payload has an error key, even when it
\* has a message key too; otherwise one status line if it has a message
\* key; otherwise, if the payload has a non-empty type, one new-item line
\* with that type and the content preview; otherwise (no type, or an empty
\* one) nothing.  When the payload is not an object nothing is printed.
C8_SyncPriority ==
    FrameOfType(S_sync) =>
        LET m == ev.frame.m
            p == m.dd
        IN  /\ m.dk # "dict" => out = <<>>
            /\ (m.dk = "dict" /\ StringFields(p)) =>
                  /\ ev.outcome = "ok"
                  /\ CASE p.error.k # "absent" ->
                            out = <<Line("sync_error", 0, p.error, JAbsent, JAbsent)>>
                       [] p.error.k = "absent" /\ p.message.k # "absent" ->
                            out = <<Line("sync_status", 0, p.message, JAbsent, JAbsent)>>
                       [] p.error.k = "absent" /\ p.message.k = "absent"
                            /\ p.type.k = "str" /\ p.type.s # <<>> ->
                            /\ Len(out) = 1
                            /\ out[1].kind = "sync_new"
                            /\ out[1].a = p.type
                            /\ out[1].b.k = "str"
                            /\ Len(out[1].b.s) <= PreviewLen
                       [] OTHER -> out = <<>>

\* A sync message with both keys was handled as an error.
C8_Witness ==
    /\ FrameOfType(S_sync)
    /\ ev.frame.m.dk = "dict"
    /\ ev.frame.m.dd.error.k # "absent"
    /\ ev.frame.m.dd.message.k # "absent"
    /\ Len(out) = 1
    /\ out[1].kind = "sync_error"

\* C8: for every inbound sync message (payload an object, content a string
\* if present) handle_message prints one line: an error line, a status line
\* or a new-item line.
C8_SyncPrintsOneLine ==
    (FrameOfType(S_sync) /\ ev.frame.m.dk = "dict" /\ StringFields(ev.frame.m.dd)) =>
        /\ Len(out) = 1
        /\ out[1].kind \in {"sync_error", "sync_status", "sync_new"}

\* Every field of the message that is present has the type the handler
\* expects; any of them may be absent.
WellTyped(m) ==
    /\ m.type.k \in {"absent", "str"}
    /\ m.id.k \in {"absent", "str"}
    /\ m.count.k \in {"absent", "num"}
    /\ m.dk # "null"
    /\ MessageType(m) = JStr(S_all_content) => m.dk \in {"absent", "list"}
    /\ MessageType(m) = JStr(S_connection_stats) => m.dk \in {"absent", "dict"}
    /\ StringFields(m.dd)
    /\ m.dd.activeConnections.k \in {"absent", "num"}
    /\ \A i \in DOMAIN m.dl : m.dl[i].isDict /\ StringFields(m.dl[i].d)

\* C9: for every inbound JSON object, whichever of the expected fields are
\* absent (the present ones being of the expected types), handle_message
\* completes without raising: the listen loop goes on, the running flag
\* stays set and no loop error is logged.
C9_MissingFieldsNeverRaise ==
    (ev.op = "frame" /\ ev.frame.fk = "json_object" /\ WellTyped(ev.frame.m)) =>
        /\ ev.outcome = "ok"
        /\ listenPc = "recv"
        /\ running = TRUE
        /\ L("listen_error") \notin Range(out)

\* An all_content message without count, holding an item without any field,
\* was handled.
C9_Witness ==
    /\ FrameOfType(S_all_content)
    /\ ev.frame.m.count.k = "absent"
    /\ ev.frame.m.dk = "list"
    /\ \E i \in 1..Min(MaxShown, Len(ev.frame.m.dl)) : ev.frame.m.dl[i] = ItemEmpty
    /\ WellTyped(ev.frame.m)
    /\ listenPc = "recv"
    /\ running = TRUE

\* C10: for every inbound all_content message with a count field and a data
\* array of n items (objects with string fields), handle_message prints the
\* count of the count field, then, when n > 0, the heading and exactly
\* min(3, n) item lines, numbered from 1, for the first items of the array
\* in array order; for n = 0 it prints the count line alone.
C10_AllContentLines ==
    (FrameOfType(S_all_content) /\ ev.frame.m.dk = "list" /\ WellTyped(ev.frame.m)
        /\ ev.frame.m.count.k # "absent") =>
        LET m == ev.frame.m
            n == Len(m.dl)
            k == IF n < 3 THEN n ELSE 3
        IN  /\ out[1] = Line("all_count", 0, m.count, JAbsent, JAbsent)
            /\ Len(out) = IF n = 0 THEN 1 ELSE 2 + k
            /\ n > 0 => out[2] = L("all_header")
            /\ Cardinality({j \in DOMAIN out : out[j].kind = "all_item"}) = k
            /\ \A j \in 1..k :
                  /\ out[2 + j].kind = "all_item"
                  /\ out[2 + j].i = j
                  /\ out[2 + j] = ItemLine(j - 1, m.dl[j])

\* An array of more than three items, the first three not all alike, was
\* printed.
C10_Witness ==
    /\ FrameOfType(S_all_content)
    /\ ev.frame.m.dk = "list"
    /\ WellTyped(ev.frame.m)
    /\ ev.frame.m.count = JNum(7)
    /\ Len(ev.frame.m.dl) > MaxShown
    /\ ev.frame.m.dl[1] # ev.frame.m.dl[2]
    /\ Len(out) = 2 + MaxShown

\* C11: for every sync message carrying a new clipboard item (no error key,
\* no message key, a non-empty type) whose content is a string of any
\* length, the printed preview is exactly the first min(100, length)
\* characters of the content, each newline replaced by a space, so it holds
\* no character beyond position 100 of the content.
C11_PreviewIsPrefix ==
    (/\ FrameOfType(S_sync)
     /\ ev.frame.m.dk = "dict"
     /\ ev.frame.m.dd.error.k = "absent"
     /\ ev.frame.m.dd.message.k = "absent"
     /\ ev.frame.m.dd.type.k = "str"
     /\ ev.frame.m.dd.type.s # <<>>
     /\ ev.frame.m.dd.content.k = "str") =>
        LET c == ev.frame.m.dd.content.s
            n == IF Len(c) < PreviewLen THEN Len(c) ELSE PreviewLen
        IN  /\ Len(out) = 1
            /\ out[1].kind = "sync_new"
            /\ out[1].b.k = "str"
            /\ Len(out[1].b.s) = n
            /\ \A i \in 1..n :
                  out[1].b.s[i] = IF c[i] = "\n" THEN " " ELSE c[i]

\* A content longer than the cut, with a newline inside the cut, was
\* printed.
C11_Witness ==
    /\ FrameOfType(S_sync)
    /\ ev.frame.m.dk = "dict"
    /\ ev.frame.m.dd.content = JStr(S_150)
    /\ Len(out) = 1
    /\ Len(out[1].b.s) = PreviewLen
    /\ out[1].b.s[2] = " "

\* The kinds of the lines printed by the last step, the loop's own error
\* line apart.
HandlerKinds == {out[i].kind : i \in DOMAIN out} \ {"listen_error"}

\* C12: dispatch is total and exclusive: every inbound message is handled
\* by exactly one branch, selected by its type field, so the lines printed
\* for it are lines of that branch alone; a type value other than sync,
\* delete, all_content and connection_stats (a missing one counting as
\* 'unknown') gives exactly one unrecognized-message notice carrying the
\* type tag, without raising and without ending the listen loop.
C12_DispatchTotalExclusive ==
    (ev.op = "frame" /\ ev.frame.fk = "json_object") =>
        LET m == ev.frame.m
            t == IF m.type.k = "absent" THEN JStr(S_unknown) ELSE m.type
        IN  CASE t = JStr(S_sync) ->
                    HandlerKinds \subseteq {"sync_error", "sync_status", "sync_new"}
              [] t = JStr(S_delete) ->
                    /\ HandlerKinds = {"deleted"}
                    /\ Len(out) = 1
              [] t = JStr(S_all_content) ->
                    /\ HandlerKinds \subseteq {"all_count", "all_header", "all_item"}
                    /\ ev.outcome = "ok" => out[1].kind = "all_count"
              [] t = JStr(S_connection_stats) ->
                    /\ HandlerKinds \subseteq {"stats"}
                    /\ ev.outcome = "ok" => Len(out) = 1
              [] OTHER ->
                    /\ out = <<Line("unrecognized", 0, t, JAbsent, JAbsent)>>
                    /\ ev.outcome = "ok"
                    /\ listenPc = "recv"
                    /\ running = TRUE

\* A message of a type that is no string was given the notice.
C12_Witness ==
    /\ ev.op = "frame"
    /\ ev.frame.fk = "json_object"
    /\ ev.frame.m.type = JNum(5)
    /\ out = <<Line("unrecognized", 0, JNum(5), JAbsent, JAbsent)>>
    /\ listenPc = "recv"

\* C13: within one run of the script the running flag is set true only by
\* a successful connect, made on an object that has no handle yet and has
\* done nothing else; every other change of the flag clears it, in a step
\* of the listen task or of the main flow; once it is cleared on a
\* connected object it stays cleared; and a handle, once set, is never
\* replaced, so there is at most one connection.
C13_Lifecycle ==
    /\ [][running' # running =>
            IF running'
            THEN /\ ev'.op = "connect"
                 /\ ev'.outcome = "ok"
                 /\ pc = "connecting"
                 /\ websocket = "None"
                 /\ chan = "none"
                 /\ listenPc = "none"
                 /\ closeCalls = 0
            ELSE /\ ev'.op \in {"frame", "closed", "transport_error",
                                "start_monitoring", "idle", "interrupt"}
                 /\ websocket = "conn"]_vars
    /\ []((websocket # "None" /\ ~running) => [](~running))
    /\ [][ev'.op = "connect" => websocket = "None" /\ chan = "none"]_vars
    /\ [][websocket # "None" => websocket' = websocket]_vars
    /\ [][pc' = "connecting" => pc = "start"]_vars

\* The run went through the whole cycle: connected, listened, and is
\* disconnected again.
C13_Witness ==
    /\ exited
    /\ websocket = "conn"
    /\ ~running
    /\ listenPc = "done"
    /\ closeCalls = 1
    /\ chan = "closed"

\* The last step was the listen task meeting an exception that is neither
\* ConnectionClosed nor a JSONDecodeError: raised by the wait for a frame,
\* or while a frame was being handled.
ListenRaised ==
    \/ ev.op = "transport_error"
    \/ ev.op = "frame" /\ ev.outcome = "raised"

\* C14: an error of the transport other than connection-closed, and an
\* error other than a parse error raised while a frame is handled, is
\* logged, clears the running flag and ends the listen task, which is not
\* started again; the error does not reach the main flow, which is still
\* in its loop; and the teardown then follows: the main flow leaves the
\* loop and calls close() on the connection.
C14_OtherErrorEndsLoop ==
    /\ [](ListenRaised =>
            /\ out # <<>>
            /\ out[Len(out)] = L("listen_error")
            /\ ~running
            /\ listenPc = "done"
            /\ pc = "idle"
            /\ ~exited
            /\ closeCalls = 0)
    /\ [][listenPc = "done" => listenPc' = "done"]_vars
    /\ (ListenRaised ~> (closeCalls = 1 /\ listenPc = "done" /\ ~running))

\* The wait for a frame raised and the listen task ended on it.
C14_Witness ==
    /\ ev.op = "transport_error"
    /\ out = <<L("listen_error")>>
    /\ ~running
    /\ listenPc = "done"
    /\ pc = "idle"

\* The request for the current content, as the claim words it.
TheRequest == [type |-> S_get_all_content, data |-> JNum(RequestLimit)]

\* The number of lines of the last step that report a send, done or failed.
SendReports ==
    Cardinality({i \in DOMAIN out : out[i].kind \in {"sent", "send_failed"}})

\* C15 as stated: in every run that connects, once start_monitoring has
\* gone through its request, exactly one message has been sent, the
\* request.
C15_ExactlyOneSent ==
    ev.op = "start_monitoring" => sent = <<TheRequest>>

\* C15, amended: start_monitoring makes exactly one attempt to send, that
\* of the request, on the established connection and before the listen
\* task exists; the attempt writes the request unless the write fails, in
\* which case nothing is written and the failure is logged; nothing else is
\* ever written; and the listen task acts only after that step.
C15_OneRequestAttempt ==
    /\ [](/\ Len(sent) <= 1
          /\ sent # <<>> => sent = <<TheRequest>>)
    /\ [](ev.op = "start_monitoring" =>
            /\ SendReports = 1
            /\ sent = IF ev.outcome = "ok" THEN <<TheRequest>> ELSE <<>>
            /\ out[2] = IF ev.outcome = "ok"
                        THEN Line("sent", 0, JStr(S_get_all_content),
                                  JNum(RequestLimit), JAbsent)
                        ELSE L("send_failed"))
    /\ [][ev'.op = "start_monitoring" =>
            /\ pc = "connected"
            /\ websocket = "conn"
            /\ chan = "open"
            /\ listenPc = "none"
            /\ sent = <<>>]_vars
    /\ [][sent' # sent => ev'.op = "start_monitoring"]_vars
    /\ [][listenPc = "none" /\ listenPc' # "none" =>
            ev'.op = "start_monitoring"]_vars
    /\ [](ev.op \in {"listen_start", "frame", "closed", "transport_error"} =>
            listenPc # "none" /\ pc = "idle")
    /\ [][pc' = "connected" => ev'.op = "connect" /\ pc = "connecting"]_vars

\* The write of the request failed: the run goes on with nothing sent, and
\* the listen task is started.
C15_Witness ==
    /\ ev.op = "start_monitoring"
    /\ ev.outcome = "fail"
    /\ sent = <<>>
    /\ out[2] = L("send_failed")
    /\ listenPc = "ready"
    /\ pc = "idle"

\* The positions of a listen task that does not run any more: cancellation
\* requested, cancelled, or ended by itself.
Stopped == {"cancelling", "cancelled", "done"}

\* C16: whenever close() has been called on the socket the listen task was
\* cancelled before (or had ended by itself), on the way out of the sleep
\* loop and on the interrupt alike; and once cancellation is requested the
\* listen task takes no frame, closure or error, prints nothing and leaves
\* the running flag as it is: the only steps left are the end of the
\* cancelled task, the end of close() and an interrupt.
C16_CancelBeforeClose ==
    /\ [](closeCalls > 0 => listenPc \in Stopped)
    /\ [][closeCalls' # closeCalls =>
            /\ closeCalls' = closeCalls + 1
            /\ ev'.op \in {"idle", "interrupt", "start_monitoring"}
            /\ listenPc' \in Stopped]_vars
    /\ [][(listenPc \in {"cancelling", "cancelled"}) =>
            /\ ev'.op \in {"listen_cancelled", "close_done", "interrupt"}
            /\ running' = running
            /\ listenPc' \in {"cancelling", "cancelled"}
            /\ (\A i \in DOMAIN out' :
                  out'[i].kind \in {"disconnected", "program_error",
                                    "program_exited"})]_vars

\* An interrupt found the listen task waiting for a frame: the task is
\* cancelled and close() is called.
C16_Witness ==
    /\ ev.op = "interrupt"
    /\ listenPc = "cancelling"
    /\ closeCalls = 1
    /\ pc = "closing"
    /\ ~running

\* C17: handling a message leaves the connection handle, the channel and
\* what was sent as they are, and the running flag too (the flag changes in
\* that step only when the handler raised and the listen loop caught it);
\* when the handler returns nothing in the state of the monitor has
\* changed; and the lines printed are those that handle_message gives for
\* that message alone, whatever was handled before.
C17_HandleMessageStateless ==
    [][(ev'.op = "frame" /\ ev'.frame.fk = "json_object") =>
        LET r == HandleMessage(ev'.frame.m)
        IN  /\ websocket' = websocket
            /\ chan' = chan
            /\ sent' = sent
            /\ closeCalls' = closeCalls
            /\ pc' = pc
            /\ ev'.outcome = (IF r.raised THEN "raised" ELSE "ok")
            /\ IF r.raised
               THEN out' = Append(r.lines, L("listen_error"))
               ELSE /\ out' = r.lines
                    /\ running' = running
                    /\ listenPc' = listenPc]_vars

\* A sync message was handled by the running loop, and its line is the one
\* the message alone determines.
C17_Witness ==
    /\ FrameOfType(S_sync)
    /\ ev.outcome = "ok"
    /\ ev.frame.m.dk = "dict"
    /\ ev.frame.m.dd.content = JStr(S_exact)
    /\ out = HandleSync(ev.frame.m).lines
    /\ Len(out) = 1
    /\ running
    /\ listenPc = "recv"

\* C18: in every state reached by any order of calls on the object, a true
\* running flag comes with a connection handle; in particular no step of
\* the listen task and no send_message finds the flag true and the handle
\* absent.
C18_RunningImpliesHandle ==
    /\ running => websocket # "None"
    /\ (ev.op \in {"listen_start", "frame", "closed", "transport_error",
                   "call_send", "start_monitoring"} /\ websocket = "None") =>
            ~running

\* send_message ran on a connected object with the flag true.
C18_Witness ==
    /\ ev.op = "call_send"
    /\ ev.outcome = "ok"
    /\ running
    /\ websocket = "conn"
    /\ sent # <<>>
====
